---- MODULE Spec2Model ----
(***************************************************************************)
(* A model of the mock generator of expo-modules-test-core (type mapper,   *)
(* declaration builder, module scanner, file emitter) and of               *)
(* requireNativeModule of expo-modules-core.                               *)
(*                                                                         *)
(* A string is a finite sequence of lexical atoms.  The two brackets of    *)
(* the Swift array syntax are single-character atoms; every other atom     *)
(* is an identifier that contains no bracket.  startsWith('['),            *)
(* endsWith(']') and substring(1, length - 1) therefore act on the first   *)
(* and the last atom exactly as they act on the first and the last         *)
(* character.  The JavaScript value undefined is the one-atom sequence     *)
(* Undefined, whose atom occurs in no string.                              *)
(***************************************************************************)
EXTENDS Integers, Sequences, FiniteSets, TLC

VARIABLES
    type,        \* mapper run: the argument of mapSwiftTypeToTsType
    mapped,      \* mapper run: <<>> or <<the node returned>>
    remapped,    \* mapper run: <<>> or <<the node returned for the printed text of mapped>>
    fnStructure, \* builder run: the Closure given to getMockedFunctions
    isAsync,     \* builder run: the async argument of getMockedFunctions
    func,        \* builder run: <<>> or <<the FunctionDeclaration built>>
    module,      \* scanner run: the OutputModuleDefinition given to getMockForModule
    mock,        \* scanner run: <<>> or <<the declarations getMockForModule returned>>
    modules,     \* generateMocks: its argument
    fs0,         \* generateMocks: the file system when it was called
    fs,          \* generateMocks: the file system now
    idx,         \* generateMocks: position of the for-of loop (1-based)
    pc,          \* generateMocks: "mkdir", "format", "write", "done" or "failed"
    prettyJs,    \* generateMocks: the formatted text awaiting writeFileSync
    thrown,      \* generateMocks: "none", or the call whose error ended the run
    expo,        \* requireNativeModule: globalThis.expo
    ExpoModules, \* requireNativeModule: globalThis.ExpoModules
    NativeModulesProxy, \* requireNativeModule: the bridge proxy object
    moduleName,  \* requireNativeModule: its argument
    outcome,     \* requireNativeModule: "pending", or what the call returned or threw
    openProp,    \* Collapsible: props.open, "undefined", "true" or "false"
    slug,        \* Collapsible: heading.current.slug
    asPath,      \* Collapsible: useRouter().asPath
    open,        \* Collapsible: the open state of React.useState
    effectPending, \* Collapsible: whether the effect on [asPath] has yet to run
    clicks       \* Collapsible: clicks on the summary since it was mounted

mapVars == <<type, mapped, remapped>>
fnVars == <<fnStructure, isAsync, func>>
unitVars == <<module, mock>>
genVars == <<modules, fs0, fs, idx, pc, prettyJs, thrown>>
reqVars == <<expo, ExpoModules, NativeModulesProxy, moduleName, outcome>>
colVars == <<openProp, slug, asPath, open, effectPending, clicks>>
vars == <<mapVars, fnVars, unitVars, genVars, reqVars, colVars>>

----------------------------------------------------------------------------
(* Bounds *)

\* longest type name, in atoms, given to the type mapper
MaxTypeLen == 5

----------------------------------------------------------------------------
(* Strings *)

Undefined == <<"<undefined>">>

Atoms == {"[", "]", "unknown", "String", "Bool", "Int", "Float", "Double", "Foo"}

\* JavaScript truthiness of a string-or-undefined value
Falsy(s) == s = Undefined \/ s = <<>>

startsWith(s, a) == Len(s) >= 1 /\ s[1] = a
endsWith(s, a) == Len(s) >= 1 /\ s[Len(s)] = a
\* String.prototype.substring(from, to), 0-based, to exclusive
substring(s, from, to) ==
    IF to <= from THEN <<>> ELSE SubSeq(s, from + 1, to)

----------------------------------------------------------------------------
(* Type mapper *)

maybeUnwrapSwiftArray(t) ==
    LET isArray == startsWith(t, "[") /\ endsWith(t, "]")
    IN  IF ~isArray THEN t ELSE substring(t, 1, Len(t) - 1)

isSwiftArray(t) == startsWith(t, "[") /\ endsWith(t, "]")

KeywordTypeNode(k) == [kind |-> k]
TypeReferenceNode(name, args) == [kind |-> "TypeReference", typeName |-> name, typeArguments |-> args]
ArrayTypeNode(elem) == [kind |-> "ArrayType", elementType |-> elem]

\* a switch whose default arm wrongly falls back to the any keyword
mapSwiftPrimitive_defaultAny(t) ==
    CASE t = <<"unknown">> -> KeywordTypeNode("AnyKeyword")
      [] t = <<"String">> -> KeywordTypeNode("StringKeyword")
      [] t = <<"Bool">> -> KeywordTypeNode("BooleanKeyword")
      [] t \in {<<"Int">>, <<"Float">>, <<"Double">>} -> KeywordTypeNode("NumberKeyword")
      [] OTHER -> KeywordTypeNode("AnyKeyword")

\* a switch that lost the 'Float' case label
mapSwiftPrimitive_noFloat(t) ==
    CASE t = <<"unknown">> -> KeywordTypeNode("AnyKeyword")
      [] t = <<"String">> -> KeywordTypeNode("StringKeyword")
      [] t = <<"Bool">> -> KeywordTypeNode("BooleanKeyword")
      [] t \in {<<"Int">>, <<"Double">>} -> KeywordTypeNode("NumberKeyword")
      [] OTHER -> TypeReferenceNode(t, <<>>)

\* the switch statement of mapSwiftTypeToTsType
mapSwiftPrimitive(t) ==
    CASE t = <<"unknown">> -> KeywordTypeNode("AnyKeyword")
      [] t = <<"String">> -> KeywordTypeNode("StringKeyword")
      [] t = <<"Bool">> -> KeywordTypeNode("BooleanKeyword")
      [] t \in {<<"Int">>, <<"Float">>, <<"Double">>} -> KeywordTypeNode("NumberKeyword")
      [] OTHER -> TypeReferenceNode(t, <<>>)

RECURSIVE mapSwiftTypeToTsType(_)
mapSwiftTypeToTsType(t) ==
    IF Falsy(t) THEN KeywordTypeNode("VoidKeyword")
    ELSE IF isSwiftArray(t) THEN ArrayTypeNode(mapSwiftTypeToTsType(maybeUnwrapSwiftArray(t)))
    ELSE mapSwiftPrimitive(t)

\* the text the TypeScript printer emits for a type node
RECURSIVE printType(_)
printType(node) ==
    CASE node.kind = "AnyKeyword" -> <<"any">>
      [] node.kind = "StringKeyword" -> <<"string">>
      [] node.kind = "BooleanKeyword" -> <<"boolean">>
      [] node.kind = "NumberKeyword" -> <<"number">>
      [] node.kind = "VoidKeyword" -> <<"void">>
      [] node.kind = "ArrayType" -> printType(node.elementType) \o <<"[", "]">>
      [] node.kind = "TypeReference" ->
            IF node.typeArguments = <<>> THEN node.typeName
            ELSE node.typeName \o <<"<">> \o printType(node.typeArguments[1]) \o <<">">>

----------------------------------------------------------------------------
(* Declaration builder *)

ReturnStatement(expr) == [kind |-> "ReturnStatement", expression |-> expr]

\* a switch that lost the ArrayType case
getMockReturnStatements_noArray(tsReturnType) ==
    CASE tsReturnType.kind = "AnyKeyword" -> <<ReturnStatement([kind |-> "NullKeyword"])>>
      [] tsReturnType.kind = "StringKeyword" ->
            <<ReturnStatement([kind |-> "StringLiteral", text |-> <<>>])>>
      [] tsReturnType.kind = "BooleanKeyword" -> <<ReturnStatement([kind |-> "FalseKeyword"])>>
      [] tsReturnType.kind = "NumberKeyword" ->
            <<ReturnStatement([kind |-> "NumericLiteral", text |-> <<"0">>])>>
      [] OTHER -> <<>>

\* The argument is always a node object, so the guard !tsReturnType never holds.
getMockReturnStatements(tsReturnType) ==
    CASE tsReturnType.kind = "AnyKeyword" -> <<ReturnStatement([kind |-> "NullKeyword"])>>
      [] tsReturnType.kind = "StringKeyword" ->
            <<ReturnStatement([kind |-> "StringLiteral", text |-> <<>>])>>
      [] tsReturnType.kind = "BooleanKeyword" -> <<ReturnStatement([kind |-> "FalseKeyword"])>>
      [] tsReturnType.kind = "NumberKeyword" ->
            <<ReturnStatement([kind |-> "NumericLiteral", text |-> <<"0">>])>>
      [] tsReturnType.kind = "VoidKeyword" -> <<>>
      [] tsReturnType.kind = "ArrayType" ->
            <<ReturnStatement([kind |-> "ArrayLiteralExpression", elements |-> <<>>])>>
      [] OTHER -> <<>>

\* a wrapper that forgets the Promise
wrapWithAsync_unwrapped(tsType) == tsType

wrapWithAsync(tsType) == TypeReferenceNode(<<"Promise">>, <<tsType>>)

\* ts.factory.createParameterDeclaration(undefined, undefined, name, undefined, type, undefined)
ParameterDeclaration(name, tsType) ==
    [kind |-> "Parameter", dotDotDotToken |-> FALSE, name |-> name,
     questionToken |-> FALSE, type |-> tsType, initializer |-> <<>>]

\* A Closure is [name, types]; types is <<>> (absent) or <<ClosureTypes>>, and a
\* ClosureTypes is [parameters: sequence of [name, typename], returnType].
getMockedFunctions(functions, async) ==
    [k \in 1..Len(functions) |->
        LET fn == functions[k]
            returnType ==
                mapSwiftTypeToTsType(IF fn.types = <<>> THEN Undefined ELSE fn.types[1].returnType)
        IN  [kind |-> "FunctionDeclaration",
             modifiers |->
                SelectSeq(<<"ExportKeyword", IF async THEN "AsyncKeyword" ELSE "undefined">>,
                          LAMBDA f : f # "undefined"),
             name |-> fn.name,
             parameters |->
                IF fn.types = <<>> THEN <<>>
                ELSE [j \in 1..Len(fn.types[1].parameters) |->
                        ParameterDeclaration(fn.types[1].parameters[j].name,
                            mapSwiftTypeToTsType(fn.types[1].parameters[j].typename))],
             type |-> IF async THEN wrapWithAsync(returnType) ELSE returnType,
             body |-> getMockReturnStatements(returnType)]]

----------------------------------------------------------------------------
(* Module scanner *)

\* An OutputModuleDefinition is [name, functions, asyncFunctions, syncFunctions].
\* Object.values(module) restricted to its array-valued properties, in key order.
ObjectValuesArrays(m) == <<m.functions, m.asyncFunctions, m.syncFunctions>>

RECURSIVE Flat(_)
Flat(seqs) == IF seqs = <<>> THEN <<>> ELSE Head(seqs) \o Flat(Tail(seqs))

\* what the forEach callback pushes for one closure's types
PushedTypes(types) ==
    IF types = <<>> THEN <<>>
    ELSE [j \in 1..Len(types[1].parameters) |->
              maybeUnwrapSwiftArray(types[1].parameters[j].typename)]
         \o (IF Falsy(types[1].returnType) THEN <<>>
             ELSE <<maybeUnwrapSwiftArray(types[1].returnType)>>)

\* new Set(array): the distinct elements, in insertion order
RECURSIVE NewSet(_)
NewSet(s) ==
    IF s = <<>> THEN <<>>
    ELSE LET rest == NewSet(SubSeq(s, 1, Len(s) - 1))
             last == s[Len(s)]
         IN  IF \E k \in 1..Len(rest) : rest[k] = last THEN rest ELSE Append(rest, last)

getTypesToMock(m) ==
    LET closures == Flat(ObjectValuesArrays(m))
        foundTypes == Flat([k \in 1..Len(closures) |-> PushedTypes(closures[k].types)])
    IN  NewSet(SelectSeq(foundTypes,
                         LAMBDA ft : mapSwiftTypeToTsType(ft).kind = "TypeReference"))

getMockedTypes(types) ==
    [k \in 1..Len(types) |->
        [kind |-> "TypeAliasDeclaration", modifiers |-> <<"ExportKeyword">>,
         name |-> types[k], type |-> KeywordTypeNode("AnyKeyword")]]

\* a concatenation that puts the async functions before the plain ones
getMockForModule_asyncFirst(m) ==
    getMockedTypes(getTypesToMock(m))
        \o getMockedFunctions(m.asyncFunctions, TRUE)
        \o getMockedFunctions(m.functions, FALSE)

getMockForModule(m) ==
    getMockedTypes(getTypesToMock(m))
        \o getMockedFunctions(m.functions, FALSE)
        \o getMockedFunctions(m.asyncFunctions, TRUE)

----------------------------------------------------------------------------
(* File emitter *)

\* Source text is kept as the sequence of the declarations it spells.  A
\* function is spelled with its modifiers, name, parameters (each with the text of
\* its type annotation, <<>> when it has none), the text of its return type
\* annotation (<<>> when it has none) and its statements; a type alias with its
\* name and the text of the aliased type.
printExpression(e) ==
    CASE e.kind = "NullKeyword" -> <<"null">>
      [] e.kind = "StringLiteral" -> <<"\"">> \o e.text \o <<"\"">>
      [] e.kind = "FalseKeyword" -> <<"false">>
      [] e.kind = "NumericLiteral" -> e.text
      [] e.kind = "ArrayLiteralExpression" -> <<"[", "]">>

printNode(node) ==
    IF node.kind = "TypeAliasDeclaration"
    THEN [decl |-> "type", export |-> \E k \in 1..Len(node.modifiers) : node.modifiers[k] = "ExportKeyword",
          name |-> node.name, type |-> printType(node.type)]
    ELSE [decl |-> "function",
          export |-> \E k \in 1..Len(node.modifiers) : node.modifiers[k] = "ExportKeyword",
          async |-> \E k \in 1..Len(node.modifiers) : node.modifiers[k] = "AsyncKeyword",
          name |-> node.name,
          params |-> [j \in 1..Len(node.parameters) |->
                        [name |-> node.parameters[j].name,
                         type |-> printType(node.parameters[j].type)]],
          returns |-> printType(node.type),
          body |-> [j \in 1..Len(node.body) |->
                        <<"return">> \o printExpression(node.body[j].expression)]]

\* printer.printList(ts.ListFormat.MultiLine, mock, resultFile)
printList(nodes) == [k \in 1..Len(nodes) |-> printNode(nodes[k])]

\* ts.transpileModule(printedTs, {module: ESNext, target: ESNext}).outputText: type
\* aliases and type annotations are erased; a module left without any export is
\* emitted as the single statement "export {};".
transpileModule(printedTs) ==
    LET values == SelectSeq(printedTs, LAMBDA d : d.decl = "function")
        js == [k \in 1..Len(values) |->
                 [values[k] EXCEPT
                    !.params = [j \in 1..Len(values[k].params) |->
                                   [name |-> values[k].params[j].name, type |-> <<>>]],
                    !.returns = <<>>]]
    IN  IF printedTs # <<>> /\ js = <<>> THEN <<[decl |-> "export {}"]>> ELSE js

\* prettier.format(compiledJs, {parser: 'babel', tabWidth: 2, singleQuote: true}):
\* string literals are requoted with single quotes
formatStatement(st) == [j \in 1..Len(st) |-> IF st[j] = "\"" THEN "'" ELSE st[j]]

format(compiledJs) ==
    [k \in 1..Len(compiledJs) |->
        IF compiledJs[k].decl = "function"
        THEN [compiledJs[k] EXCEPT
                !.body = [j \in 1..Len(compiledJs[k].body) |-> formatStatement(compiledJs[k].body[j])]]
        ELSE compiledJs[k]]

\* a path that leaves out the module's name
filePath_noName(m) == <<".ts">>

\* path.join(directoryPath, 'mocks', m.name + '.ts'), relative to the mocks directory
filePath(m) == m.name \o <<".ts">>

\* everything generateMocks computes for one module before it writes
prettyJsOf(m) == format(transpileModule(printList(getMockForModule(m))))

\* The file system is [mocks: whether ./mocks exists, files: the content of every
\* file in ./mocks, by path].
mkdirSync(f) == [f EXCEPT !.mocks = TRUE]

writeFileSync(f, path, data) ==
    [f EXCEPT !.files = [p \in (DOMAIN f.files) \cup {path} |->
                            IF p = path THEN data ELSE f.files[p]]]

----------------------------------------------------------------------------
(* requireNativeModule *)

JsUndefined == [t |-> "undefined"]
JsNull == [t |-> "null"]
Nullish(v) == v.t \in {"undefined", "null"}

\* obj?.[key] on a value that is undefined or an object with the given entries
OptionalGet(obj, key) ==
    IF Nullish(obj) THEN JsUndefined
    ELSE IF key \in DOMAIN obj.entries THEN obj.entries[key] ELSE JsUndefined

\* a lookup that consults the bridge proxy first
requireNativeModule_proxyFirst(name) ==
    LET modulesObj == IF Nullish(expo) THEN JsUndefined ELSE expo.modules
        a == OptionalGet(modulesObj, name)
        b == OptionalGet(ExpoModules, name)
        c == OptionalGet(NativeModulesProxy, name)
        nativeModule == IF ~Nullish(c) THEN c ELSE IF ~Nullish(b) THEN b ELSE a
    IN  IF Nullish(nativeModule)
        THEN [kind |-> "threw", message |-> <<"Cannot find native module '", name, "'">>]
        ELSE [kind |-> "returned", value |-> nativeModule]

\* Every value a registry holds here is undefined, null or a module object, so
\* !nativeModule holds exactly for the nullish ones.
requireNativeModule(name) ==
    LET modulesObj == IF Nullish(expo) THEN JsUndefined ELSE expo.modules
        a == OptionalGet(modulesObj, name)
        b == OptionalGet(ExpoModules, name)
        c == OptionalGet(NativeModulesProxy, name)
        nativeModule == IF ~Nullish(a) THEN a ELSE IF ~Nullish(b) THEN b ELSE c
    IN  IF Nullish(nativeModule)
        THEN [kind |-> "threw", message |-> <<"Cannot find native module '", name, "'">>]
        ELSE [kind |-> "returned", value |-> nativeModule]

----------------------------------------------------------------------------
(* Collapsible *)

\* String.prototype.split(sep) for a one-character separator: the pieces between
\* the occurrences of sep, of which there is always at least one
RECURSIVE split(_, _)
split(s, sep) ==
    IF \A k \in 1..Len(s) : s[k] # sep THEN <<s>>
    ELSE LET k == CHOOSE i \in 1..Len(s) : s[i] = sep /\ \A j \in 1..(i - 1) : s[j] # sep
         IN  <<SubSeq(s, 1, k - 1)>> \o split(SubSeq(s, k + 1, Len(s)), sep)

\* React.useState<boolean>(props.open ?? false)
initialOpen(prop) == IF prop = "undefined" THEN FALSE ELSE prop = "true"

\* the condition under which the effect on [asPath] calls setOpen(true);
\* splitUrl[1] of the source is the second piece
hashEffectOpens(path, headingSlug) ==
    LET splitUrl == split(path, "#")
        hash == IF Len(splitUrl) # 0 /\ Len(splitUrl) >= 2 THEN splitUrl[2] ELSE Undefined
    IN  ~Falsy(hash) /\ hash = <<"#">> \o headingSlug

\* a handler that only ever opens
onToggle_opensOnly(o) == TRUE

\* the value onToggle gives to setOpen
onToggle(o) == ~o

\* <details open={open}>: the summary is always displayed, the rest only when open
contentVisible == open
summaryVisible == TRUE

----------------------------------------------------------------------------
(* The state of a component that is not running *)

MapIdle == type = <<>> /\ mapped = <<>> /\ remapped = <<>>

FnIdle == fnStructure = [name |-> <<>>, types |-> <<>>] /\ isAsync = FALSE /\ func = <<>>

UnitIdle ==
    /\ module = [name |-> <<>>, functions |-> <<>>, asyncFunctions |-> <<>>, syncFunctions |-> <<>>]
    /\ mock = <<>>

GenIdle ==
    /\ modules = <<>>
    /\ fs0 = [mocks |-> FALSE, files |-> <<>>]
    /\ fs = fs0
    /\ idx = 1
    /\ pc = "done"
    /\ prettyJs = <<>>
    /\ thrown = "none"

ReqIdle ==
    /\ expo = JsUndefined
    /\ ExpoModules = JsUndefined
    /\ NativeModulesProxy = [t |-> "object", entries |-> <<>>]
    /\ moduleName = ""
    /\ outcome = [kind |-> "pending"]

ColIdle ==
    /\ openProp = "undefined"
    /\ slug = <<>>
    /\ asPath = <<>>
    /\ open = FALSE
    /\ effectPending = FALSE
    /\ clicks = 0

----------------------------------------------------------------------------
(* A run of the type mapper on one type name *)

MapInit ==
    /\ \/ type = Undefined
       \/ \E n \in 0..MaxTypeLen : type \in [1..n -> Atoms]
    /\ mapped = <<>>
    /\ remapped = <<>>
    /\ FnIdle /\ UnitIdle /\ GenIdle /\ ReqIdle /\ ColIdle

MapType ==
    /\ mapped = <<>>
    /\ mapped' = <<mapSwiftTypeToTsType(type)>>
    /\ UNCHANGED <<type, remapped, fnVars, unitVars, genVars, reqVars, colVars>>

\* the mapper applied to the printed text of its own result
MapPrinted ==
    /\ mapped # <<>>
    /\ remapped = <<>>
    /\ remapped' = <<mapSwiftTypeToTsType(printType(mapped[1]))>>
    /\ UNCHANGED <<type, mapped, fnVars, unitVars, genVars, reqVars, colVars>>

MapNext == MapType \/ MapPrinted

SpecMap == MapInit /\ [][MapNext]_vars

----------------------------------------------------------------------------
(* A run of the declaration builder on one closure *)

\* most parameters of a closure given to the builder
MaxParams == 2

FnParamNames == {<<"a">>, <<"b">>}
FnParamTypes == {<<"String">>, <<"Foo">>, <<"[", "Int", "]">>}
FnReturnTypes ==
    {Undefined, <<>>, <<"unknown">>, <<"String">>, <<"Bool">>, <<"Int">>, <<"Float">>,
     <<"Double">>, <<"[", "Int", "]">>, <<"[", "[", "Foo", "]", "]">>, <<"Foo">>}

FnParameters ==
    UNION {[1..n -> [name : FnParamNames, typename : FnParamTypes]] : n \in 0..MaxParams}

FnClosures ==
    {[name |-> <<"fn">>, types |-> t] :
        t \in {<<>>} \cup {<<[parameters |-> ps, returnType |-> r]>> :
                              ps \in FnParameters, r \in FnReturnTypes}}

FnInit ==
    /\ fnStructure \in FnClosures
    /\ isAsync \in BOOLEAN
    /\ func = <<>>
    /\ MapIdle /\ UnitIdle /\ GenIdle /\ ReqIdle /\ ColIdle

BuildFunction ==
    /\ func = <<>>
    /\ func' = <<getMockedFunctions(<<fnStructure>>, isAsync)[1]>>
    /\ UNCHANGED <<fnStructure, isAsync, mapVars, unitVars, genVars, reqVars, colVars>>

SpecFn == FnInit /\ [][BuildFunction]_vars

----------------------------------------------------------------------------
(* A run of getMockForModule on one module *)

\* most closures of a module, over its three sequences together
MaxClosures == 2

UnitClosureTypes ==
    {<<>>} \cup
    {<<[parameters |-> ps, returnType |-> r]>> :
        ps \in {<<>>} \cup {<<[name |-> <<"a">>, typename |-> t]>> :
                              t \in {<<"Foo">>, <<"[", "Foo", "]">>,
                                     <<"[", "[", "Foo", "]", "]">>, <<"String">>}},
        r \in {Undefined, <<"[", "Bar", "]">>, <<"Foo">>, <<"String">>}}

\* the closures of one sequence, named by position
NamedClosures(prefix, ts) == [k \in 1..Len(ts) |-> [name |-> <<prefix, ToString(k)>>, types |-> ts[k]]]

\* the module built from the types of the closures of its three sequences
UnitModule(f, g, h) ==
    [name |-> <<"A">>,
     functions |-> NamedClosures("f", f),
     asyncFunctions |-> NamedClosures("g", g),
     syncFunctions |-> NamedClosures("h", h)]

UnitInit ==
    /\ \E nf, ng, nh \in 0..MaxClosures :
          /\ nf + ng + nh <= MaxClosures
          /\ \E f \in [1..nf -> UnitClosureTypes],
                g \in [1..ng -> UnitClosureTypes],
                h \in [1..nh -> UnitClosureTypes] : module = UnitModule(f, g, h)
    /\ mock = <<>>
    /\ MapIdle /\ FnIdle /\ GenIdle /\ ReqIdle /\ ColIdle

MockModule ==
    /\ mock = <<>>
    /\ mock' = <<getMockForModule(module)>>
    /\ UNCHANGED <<module, mapVars, fnVars, genVars, reqVars, colVars>>

SpecUnit == UnitInit /\ [][MockModule]_vars

----------------------------------------------------------------------------
(* generateMocks *)

\* most modules given to generateMocks
MaxModules == 2

ModuleNames == {<<"A">>, <<"B">>}

Closure(name, parameters, returnType) ==
    [name |-> name, types |-> <<[parameters |-> parameters, returnType |-> returnType]>>]

ModuleBodies ==
    { [functions |-> <<>>, asyncFunctions |-> <<>>, syncFunctions |-> <<>>],
      [functions |-> <<Closure(<<"getValue">>, <<>>, <<"Int">>)>>,
       asyncFunctions |-> <<Closure(<<"getValueAsync">>,
                                    <<[name |-> <<"id">>, typename |-> <<"String">>]>>,
                                    <<"Bool">>)>>,
       syncFunctions |-> <<>>],
      [functions |-> <<Closure(<<"convert">>,
                               <<[name |-> <<"a">>, typename |-> <<"Foo">>]>>,
                               <<"[", "Bar", "]">>)>>,
       asyncFunctions |-> <<>>,
       syncFunctions |-> <<>>] }

GenModules ==
    {[name |-> n, functions |-> b.functions, asyncFunctions |-> b.asyncFunctions,
      syncFunctions |-> b.syncFunctions] : n \in ModuleNames, b \in ModuleBodies}

\* the content of a file that was in ./mocks before the run
OldText == <<[decl |-> "other"]>>

InitialFileSystems ==
    {[mocks |-> FALSE, files |-> <<>>]} \cup
    {[mocks |-> TRUE, files |-> [p \in present |-> OldText]] :
        present \in SUBSET {n \o <<".ts">> : n \in ModuleNames}}

GenInit ==
    /\ modules \in UNION {[1..n -> GenModules] : n \in 0..MaxModules}
    /\ fs0 \in InitialFileSystems
    /\ fs = fs0
    /\ idx = 1
    /\ pc = IF modules = <<>> THEN "done" ELSE "mkdir"
    /\ prettyJs = <<>>
    /\ thrown = "none"
    /\ MapIdle /\ FnIdle /\ UnitIdle /\ ReqIdle /\ ColIdle

\* ts.createSourceFile(...); fs.mkdirSync(path.join(directoryPath, 'mocks'), {recursive: true})
Mkdir ==
    /\ pc = "mkdir"
    /\ fs' = mkdirSync(fs)
    /\ pc' = "format"
    /\ UNCHANGED <<modules, fs0, idx, prettyJs, thrown, mapVars, fnVars, unitVars, reqVars, colVars>>

MkdirThrows ==
    /\ pc = "mkdir"
    /\ pc' = "failed"
    /\ thrown' = "mkdirSync"
    /\ UNCHANGED <<modules, fs0, fs, idx, prettyJs, mapVars, fnVars, unitVars, reqVars, colVars>>

\* getMockForModule, printList, transpileModule and the awaited prettier.format
Format ==
    /\ pc = "format"
    /\ prettyJs' = prettyJsOf(modules[idx])
    /\ pc' = "write"
    /\ UNCHANGED <<modules, fs0, fs, idx, thrown, mapVars, fnVars, unitVars, reqVars, colVars>>

\* fs.writeFileSync(filePath, prettyJs), then the next turn of the loop
WriteFile ==
    /\ pc = "write"
    /\ fs' = writeFileSync(fs, filePath(modules[idx]), prettyJs)
    /\ prettyJs' = <<>>
    /\ idx' = idx + 1
    /\ pc' = IF idx = Len(modules) THEN "done" ELSE "mkdir"
    /\ UNCHANGED <<modules, fs0, thrown, mapVars, fnVars, unitVars, reqVars, colVars>>

\* a loop that catches the error of writeFileSync and goes on to the next module
WriteFileThrows_continues ==
    /\ pc = "write"
    /\ prettyJs' = <<>>
    /\ idx' = idx + 1
    /\ pc' = IF idx = Len(modules) THEN "done" ELSE "mkdir"
    /\ thrown' = "writeFileSync"
    /\ UNCHANGED <<modules, fs0, fs, mapVars, fnVars, unitVars, reqVars, colVars>>

\* writeFileSync throws before the file is opened
WriteFileThrows ==
    /\ pc = "write"
    /\ pc' = "failed"
    /\ thrown' = "writeFileSync"
    /\ UNCHANGED <<modules, fs0, fs, idx, prettyJs, mapVars, fnVars, unitVars, reqVars, colVars>>

\* writeFileSync throws after the file was opened with flag 'w': it is left empty
WriteFileThrowsTruncated ==
    /\ pc = "write"
    /\ fs' = writeFileSync(fs, filePath(modules[idx]), <<>>)
    /\ pc' = "failed"
    /\ thrown' = "writeFileSync"
    /\ UNCHANGED <<modules, fs0, idx, prettyJs, mapVars, fnVars, unitVars, reqVars, colVars>>

Next == Mkdir \/ MkdirThrows \/ Format \/ WriteFile \/ WriteFileThrows \/ WriteFileThrowsTruncated

Spec == GenInit /\ [][Next]_vars

----------------------------------------------------------------------------
(* A call of requireNativeModule *)

ReqNames == {"ExpoCamera", "ExpoFont"}

\* the objects a registry can be: each name is absent, null or a module object
Registry(r) ==
    {[t |-> "object",
      entries |-> [n \in ReqNames |->
                      CASE c[n] = "undefined" -> JsUndefined
                        [] c[n] = "null" -> JsNull
                        [] c[n] = "module" -> [t |-> "module", registry |-> r, name |-> n]]] :
        c \in [ReqNames -> {"undefined", "null", "module"}]}

ReqInit ==
    /\ expo \in {JsUndefined} \cup
                {[t |-> "object", modules |-> m] : m \in {JsUndefined} \cup Registry("expo.modules")}
    /\ ExpoModules \in {JsUndefined} \cup Registry("ExpoModules")
    /\ NativeModulesProxy \in Registry("NativeModulesProxy")
    /\ moduleName \in ReqNames
    /\ outcome = [kind |-> "pending"]
    /\ MapIdle /\ FnIdle /\ UnitIdle /\ GenIdle /\ ColIdle

Require ==
    /\ outcome.kind = "pending"
    /\ outcome' = requireNativeModule(moduleName)
    /\ UNCHANGED <<expo, ExpoModules, NativeModulesProxy, moduleName, mapVars, fnVars, unitVars, genVars, colVars>>

SpecRequire == ReqInit /\ [][Require]_vars

----------------------------------------------------------------------------
(* Claims about the type mapper *)

Max(S) == CHOOSE x \in S : \A y \in S : y <= x

\* how many bracket pairs enclose the name: the largest k such that the first k
\* atoms are "[" and the last k atoms are "]"
BracketPairs(s) ==
    Max({k \in 0..(Len(s) \div 2) :
            \A j \in 1..k : s[j] = "[" /\ s[Len(s) + 1 - j] = "]"})

RECURSIVE ArrayOfDepth(_, _)
ArrayOfDepth(node, k) ==
    IF k = 0 THEN node ELSE [kind |-> "ArrayType", elementType |-> ArrayOfDepth(node, k - 1)]

\* the mapping of a name that is not in array syntax, as §4.1 tabulates it
ReferenceBase(s) ==
    IF s = <<>> THEN [kind |-> "VoidKeyword"]
    ELSE IF s = <<"unknown">> THEN [kind |-> "AnyKeyword"]
    ELSE IF s = <<"String">> THEN [kind |-> "StringKeyword"]
    ELSE IF s = <<"Bool">> THEN [kind |-> "BooleanKeyword"]
    ELSE IF s = <<"Int">> \/ s = <<"Float">> \/ s = <<"Double">> THEN [kind |-> "NumberKeyword"]
    ELSE [kind |-> "TypeReference", typeName |-> s, typeArguments |-> <<>>]

ReferenceMapping(s) ==
    IF s = Undefined THEN [kind |-> "VoidKeyword"]
    ELSE LET k == BracketPairs(s)
         IN  ArrayOfDepth(ReferenceBase(SubSeq(s, k + 1, Len(s) - k)), k)

\* C6: mapType is total (a result is always produced, never an exception) and the
\* result is the reference mapping of the name: void for the empty or absent
\* name, array-of at every nesting depth, the six primitives, and otherwise an
\* opaque reference carrying the name verbatim.
C6_MapTypeAgreesWithReference ==
    /\ mapped = <<>> => ENABLED MapType
    /\ mapped # <<>> => mapped[1] = ReferenceMapping(type)

C6_Witness ==
    /\ type = <<"[", "[", "Foo", "]", "]">>
    /\ mapped # <<>>
    /\ mapped[1] = ArrayTypeNode(ArrayTypeNode(TypeReferenceNode(<<"Foo">>, <<>>)))

KeywordKinds == {"AnyKeyword", "StringKeyword", "BooleanKeyword", "NumberKeyword", "VoidKeyword"}

\* C3 as stated: mapping the printed form of a mapped type again yields the
\* same classification as the first mapping.
C3_RemapKeepsClassification ==
    remapped # <<>> => remapped[1].kind = mapped[1].kind

\* C3 amended: re-mapping is stable only on opaque references.  An opaque
\* reference maps again to the same opaque reference; the printed form of a
\* keyword type (any, string, boolean, number, void) maps to an opaque
\* reference named by that keyword, not to the keyword class; the printed form
\* T[] of an array type maps to an opaque reference named T[] unless the text
\* itself opens with a bracket.
C3_RemapStableOnlyOnOpaque ==
    remapped # <<>> =>
        /\ mapped[1].kind = "TypeReference" => remapped[1] = mapped[1]
        /\ mapped[1].kind \in KeywordKinds =>
              remapped[1] = TypeReferenceNode(printType(mapped[1]), <<>>)
        /\ (mapped[1].kind = "ArrayType" /\ ~startsWith(printType(mapped[1]), "[")) =>
              remapped[1] = TypeReferenceNode(printType(mapped[1]), <<>>)

C3_Witness ==
    /\ type = <<"String">>
    /\ remapped # <<>>
    /\ mapped[1].kind = "StringKeyword"
    /\ remapped[1] = TypeReferenceNode(<<"string">>, <<>>)

----------------------------------------------------------------------------
(* Claims about the declaration builder *)

DeclaredReturnType(fn) == IF fn.types = <<>> THEN Undefined ELSE fn.types[1].returnType
DeclaredParameters(fn) == IF fn.types = <<>> THEN <<>> ELSE fn.types[1].parameters

\* the default-value statements of §4.2, by the kind of the mapped type
DefaultStatements(kind) ==
    IF kind = "AnyKeyword"
        THEN <<[kind |-> "ReturnStatement", expression |-> [kind |-> "NullKeyword"]]>>
    ELSE IF kind = "StringKeyword"
        THEN <<[kind |-> "ReturnStatement", expression |-> [kind |-> "StringLiteral", text |-> <<>>]]>>
    ELSE IF kind = "BooleanKeyword"
        THEN <<[kind |-> "ReturnStatement", expression |-> [kind |-> "FalseKeyword"]]>>
    ELSE IF kind = "NumberKeyword"
        THEN <<[kind |-> "ReturnStatement",
                expression |-> [kind |-> "NumericLiteral", text |-> <<"0">>]]>>
    ELSE IF kind = "ArrayType"
        THEN <<[kind |-> "ReturnStatement",
                expression |-> [kind |-> "ArrayLiteralExpression", elements |-> <<>>]]>>
    ELSE <<>>

\* C7: for every closure, synchronous or asynchronous, the body of the generated
\* function is exactly the default-value statements of the mapped, non-promise
\* return type: null for any, '' for string, false for boolean, 0 for number, []
\* for every array type, and no statement for void and for an opaque reference.
C7_BodyIsDefaultOfMappedReturnType ==
    func # <<>> =>
        func[1].body = DefaultStatements(mapSwiftTypeToTsType(DeclaredReturnType(fnStructure)).kind)

C7_Witness ==
    /\ func # <<>>
    /\ isAsync
    /\ DeclaredReturnType(fnStructure) = <<"[", "[", "Foo", "]", "]">>
    /\ Len(func[1].body) = 1
    /\ func[1].body[1].expression.kind = "ArrayLiteralExpression"

\* C8: the generated declaration is exported, is marked async iff the closure is
\* built as async, declares Promise<mapType(returnType)> when async and
\* mapType(returnType) otherwise, and has one parameter per entry of the
\* closure's parameter list, in order, with the entry's name and mapped type
\* and no optionality or default value; a closure without a types record gets
\* no parameter and the void return type.
C8_DeclarationMatchesClosure ==
    func # <<>> =>
        LET f == func[1]
            ps == DeclaredParameters(fnStructure)
            rt == mapSwiftTypeToTsType(DeclaredReturnType(fnStructure))
        IN  /\ f.kind = "FunctionDeclaration"
            /\ f.name = fnStructure.name
            /\ \E k \in 1..Len(f.modifiers) : f.modifiers[k] = "ExportKeyword"
            /\ (\E k \in 1..Len(f.modifiers) : f.modifiers[k] = "AsyncKeyword") <=> isAsync
            /\ f.type = IF isAsync
                        THEN [kind |-> "TypeReference", typeName |-> <<"Promise">>,
                              typeArguments |-> <<rt>>]
                        ELSE rt
            /\ Len(f.parameters) = Len(ps)
            /\ \A j \in 1..Len(ps) :
                  /\ f.parameters[j].name = ps[j].name
                  /\ f.parameters[j].type = mapSwiftTypeToTsType(ps[j].typename)
                  /\ ~f.parameters[j].questionToken
                  /\ f.parameters[j].initializer = <<>>
            /\ fnStructure.types = <<>> =>
                  /\ f.parameters = <<>>
                  /\ rt = [kind |-> "VoidKeyword"]

C8_Witness ==
    /\ func # <<>>
    /\ isAsync
    /\ Len(DeclaredParameters(fnStructure)) = 2
    /\ DeclaredParameters(fnStructure)[1].typename = <<"Foo">>
    /\ DeclaredParameters(fnStructure)[2].typename = <<"String">>
    /\ DeclaredReturnType(fnStructure) = <<"Bool">>
    /\ func[1].type.kind = "TypeReference"
    /\ func[1].type.typeArguments = <<[kind |-> "BooleanKeyword"]>>

----------------------------------------------------------------------------
(* Claims about the module scanner and the output unit *)

AllClosures(m) == m.functions \o m.asyncFunctions \o m.syncFunctions

\* every parameter type and every present return type of the module's closures
ScannedTypeNames(m) ==
    LET cs == AllClosures(m)
    IN  UNION {{DeclaredParameters(cs[k])[j].typename : j \in 1..Len(DeclaredParameters(cs[k]))}
               \cup (IF Falsy(DeclaredReturnType(cs[k])) THEN {} ELSE {DeclaredReturnType(cs[k])}) :
               k \in 1..Len(cs)}

\* a name with all of its array wrapping removed
FullyUnwrapped(t) == SubSeq(t, BracketPairs(t) + 1, Len(t) - BracketPairs(t))

IsOpaqueName(n) == mapSwiftTypeToTsType(n).kind = "TypeReference"

AliasNames(unit) ==
    {unit[k].name : k \in {i \in 1..Len(unit) : unit[i].kind = "TypeAliasDeclaration"}}

\* C1: array wrapping is stripped at every nesting depth before classification: a
\* name has an alias in the module's output unit iff it is the fully unwrapped
\* name of some parameter type or return type of the module and is classified as
\* an opaque reference.
C1_AliasIffFullyUnwrappedOpaque ==
    mock # <<>> =>
        \A n \in AliasNames(mock[1]) \cup {FullyUnwrapped(t) : t \in ScannedTypeNames(module)} :
            n \in AliasNames(mock[1]) <=>
                /\ \E t \in ScannedTypeNames(module) : FullyUnwrapped(t) = n
                /\ IsOpaqueName(n)

\* the names the scanner classifies, in scan order
ScanList(m) ==
    LET cs == AllClosures(m)
    IN  Flat([k \in 1..Len(cs) |->
                [j \in 1..Len(DeclaredParameters(cs[k])) |->
                    maybeUnwrapSwiftArray(DeclaredParameters(cs[k])[j].typename)]
                \o (IF Falsy(DeclaredReturnType(cs[k])) THEN <<>>
                    ELSE <<maybeUnwrapSwiftArray(DeclaredReturnType(cs[k]))>>)])

FirstSeen(list, n) == CHOOSE i \in 1..Len(list) : list[i] = n /\ \A j \in 1..(i - 1) : list[j] # n

\* C9: the output unit of a module is its type aliases (one per distinct opaque
\* name the scanner found, in first-seen order, each exported and aliased to any),
\* then one function declaration per plain function in input order, then one per
\* async function in input order, and nothing else.
C9_UnitIsAliasesThenPlainThenAsync ==
    mock # <<>> =>
        LET u == mock[1]
            nT == Cardinality({i \in 1..Len(u) : u[i].kind = "TypeAliasDeclaration"})
            nF == Len(module.functions)
            nA == Len(module.asyncFunctions)
            scan == ScanList(module)
        IN  /\ Len(u) = nT + nF + nA
            /\ \A i \in 1..nT :
                  /\ u[i].kind = "TypeAliasDeclaration"
                  /\ u[i].modifiers = <<"ExportKeyword">>
                  /\ u[i].type = [kind |-> "AnyKeyword"]
            /\ \A i, j \in 1..nT : i < j =>
                  /\ u[i].name # u[j].name
                  /\ FirstSeen(scan, u[i].name) < FirstSeen(scan, u[j].name)
            /\ {u[i].name : i \in 1..nT} = {scan[i] : i \in {x \in 1..Len(scan) : IsOpaqueName(scan[x])}}
            /\ \A k \in 1..nF :
                  /\ u[nT + k].kind = "FunctionDeclaration"
                  /\ u[nT + k].name = module.functions[k].name
                  /\ u[nT + k].modifiers = <<"ExportKeyword">>
            /\ \A k \in 1..nA :
                  /\ u[nT + nF + k].kind = "FunctionDeclaration"
                  /\ u[nT + nF + k].name = module.asyncFunctions[k].name
                  /\ u[nT + nF + k].modifiers = <<"ExportKeyword", "AsyncKeyword">>

C9_Witness ==
    /\ mock # <<>>
    /\ Len(module.functions) = 1
    /\ Len(module.asyncFunctions) = 1
    /\ Len(mock[1]) = 4
    /\ mock[1][1].name = <<"Foo">>
    /\ mock[1][2].name = <<"Bar">>
    /\ mock[1][3].name = <<"f", "1">>
    /\ mock[1][4].name = <<"g", "1">>

----------------------------------------------------------------------------
(* Claims about generateMocks *)

\* the file system after generateMocks has processed ms, in order, without error
RECURSIVE GenerateAll(_, _)
GenerateAll(ms, f) ==
    IF ms = <<>> THEN f
    ELSE GenerateAll(Tail(ms), writeFileSync(mkdirSync(f), filePath(Head(ms)), prettyJsOf(Head(ms))))

\* the module whose file was written by the latest writeFileSync
LastWritten == modules[idx - 1]

JustWrote == idx > 1 /\ pc \in {"mkdir", "done"}

DistinctSeq(s) == \A i, j \in 1..Len(s) : i # j => s[i] # s[j]

\* C2: the text written to mocks/<name>.ts holds only one exported alias to any
\* per distinct opaque type name of the module, then the synchronous mock
\* functions, then the asynchronous ones, and every function keeps its declared
\* parameter types and its declared (possibly promise-wrapped) return type.
C2_FileHoldsAliasesAndTypedFunctions ==
    JustWrote =>
        LET m == LastWritten
            text == fs.files[filePath(m)]
            types == SelectSeq(text, LAMBDA d : d.decl = "type")
            fns == SelectSeq(text, LAMBDA d : d.decl = "function")
            declared == m.functions \o m.asyncFunctions
            opaque == getTypesToMock(m)
        IN  /\ text = types \o fns
            /\ Len(types) = Len(opaque)
            /\ {types[k].name : k \in 1..Len(types)} = {opaque[k] : k \in 1..Len(opaque)}
            /\ \A k \in 1..Len(types) : types[k].export /\ types[k].type = <<"any">>
            /\ Len(fns) = Len(declared)
            /\ \A k \in 1..Len(fns) :
                  LET rt == mapSwiftTypeToTsType(DeclaredReturnType(declared[k]))
                      ps == DeclaredParameters(declared[k])
                  IN  /\ fns[k].name = declared[k].name
                      /\ fns[k].async <=> k > Len(m.functions)
                      /\ Len(fns[k].params) = Len(ps)
                      /\ \A j \in 1..Len(ps) :
                            fns[k].params[j].type = printType(mapSwiftTypeToTsType(ps[j].typename))
                      /\ fns[k].returns =
                            IF fns[k].async
                            THEN <<"Promise", "<">> \o printType(rt) \o <<">">>
                            ELSE printType(rt)

Orderings(n) == {p \in [1..n -> 1..n] : \A i, j \in 1..n : i # j => p[i] # p[j]}

Permuted(ms, p) == [k \in 1..Len(ms) |-> ms[p[k]]]

PrefixResult == GenerateAll(SubSeq(modules, 1, idx - 1), fs0)

AgreeExceptAt(f, g, path) ==
    /\ f.mocks = g.mocks
    /\ DOMAIN f.files \ {path} = DOMAIN g.files \ {path}
    /\ \A q \in DOMAIN f.files \ {path} : f.files[q] = g.files[q]

----------------------------------------------------------------------------
(* Claims about requireNativeModule *)

\* whether the registry object, if there is one, holds a module under the name
HoldsModule(registry, name) ==
    /\ registry.t = "object"
    /\ name \in DOMAIN registry.entries
    /\ registry.entries[name].t = "module"

ExpoModulesRegistry == IF expo.t = "object" THEN expo.modules ELSE [t |-> "undefined"]

\* C10: requireNativeModule returns the module of globalThis.expo.modules if it
\* holds one under the name, otherwise the one of globalThis.ExpoModules,
\* otherwise the one of NativeModulesProxy; it throws "Cannot find native module
\* '<name>'" when none of the three holds one, and never returns a missing value.
C10_ResolvesInFixedPrecedence ==
    outcome.kind # "pending" =>
        /\ HoldsModule(ExpoModulesRegistry, moduleName) =>
              outcome = [kind |-> "returned", value |-> ExpoModulesRegistry.entries[moduleName]]
        /\ (~HoldsModule(ExpoModulesRegistry, moduleName) /\ HoldsModule(ExpoModules, moduleName)) =>
              outcome = [kind |-> "returned", value |-> ExpoModules.entries[moduleName]]
        /\ (/\ ~HoldsModule(ExpoModulesRegistry, moduleName)
            /\ ~HoldsModule(ExpoModules, moduleName)
            /\ HoldsModule(NativeModulesProxy, moduleName)) =>
              outcome = [kind |-> "returned", value |-> NativeModulesProxy.entries[moduleName]]
        /\ (/\ ~HoldsModule(ExpoModulesRegistry, moduleName)
            /\ ~HoldsModule(ExpoModules, moduleName)
            /\ ~HoldsModule(NativeModulesProxy, moduleName)) =>
              outcome = [kind |-> "threw",
                         message |-> <<"Cannot find native module '", moduleName, "'">>]
        /\ outcome.kind = "returned" => outcome.value.t = "module"

C10_Witness ==
    /\ outcome.kind = "returned"
    /\ expo.t = "object"
    /\ expo.modules.t = "object"
    /\ expo.modules.entries[moduleName].t = "null"
    /\ HoldsModule(ExpoModules, moduleName)
    /\ HoldsModule(NativeModulesProxy, moduleName)
    /\ outcome.value.registry = "ExpoModules"

----------------------------------------------------------------------------
(* Claims about the aliases and the emitted functions *)

\* every parameter type and every present return type of the closures that
\* getMockForModule emits as function declarations
EmittedTypeNames(m) ==
    LET cs == m.functions \o m.asyncFunctions
    IN  UNION {{DeclaredParameters(cs[k])[j].typename : j \in 1..Len(DeclaredParameters(cs[k]))}
               \cup (IF Falsy(DeclaredReturnType(cs[k])) THEN {} ELSE {DeclaredReturnType(cs[k])}) :
               k \in 1..Len(cs)}

\* C13: no orphan aliases: every type alias of a module's output unit names a
\* type that occurs, possibly array-wrapped, as a parameter type or return type
\* of a plain or an async function of that module; closures of any other
\* sequence, such as syncFunctions, contribute no alias.
C13_NoOrphanAliases ==
    mock # <<>> =>
        \A n \in AliasNames(mock[1]) :
            \E t \in EmittedTypeNames(module) : FullyUnwrapped(t) = n

----------------------------------------------------------------------------
(* A mounted Collapsible *)

\* most clicks on the summary
MaxClicks == 3

\* longest route path, in atoms after its first
MaxPathLen == 3

Slugs == {<<"summary">>, <<"other">>}

ColInit ==
    /\ openProp \in {"undefined", "true", "false"}
    /\ slug \in Slugs
    /\ \E n \in 0..MaxPathLen : \E rest \in [1..n -> {"#", "summary", "other"}] :
          asPath = <<"/docs">> \o rest
    /\ open = initialOpen(openProp)
    /\ effectPending = TRUE
    /\ clicks = 0
    /\ MapIdle /\ FnIdle /\ UnitIdle /\ GenIdle /\ ReqIdle

\* React.useEffect(() => {...}, [asPath])
RunHashEffect ==
    /\ effectPending
    /\ effectPending' = FALSE
    /\ open' = IF hashEffectOpens(asPath, slug) THEN TRUE ELSE open
    /\ UNCHANGED <<openProp, slug, asPath, clicks, mapVars, fnVars, unitVars, genVars, reqVars>>

\* a click on the summary: onClick={onToggle} of <details>, then the re-render.
\* React runs pending effects before it handles a click.
Click ==
    /\ ~effectPending
    /\ clicks < MaxClicks
    /\ open' = onToggle(open)
    /\ clicks' = clicks + 1
    /\ UNCHANGED <<openProp, slug, asPath, effectPending, mapVars, fnVars, unitVars, genVars, reqVars>>

\* the router moves to another path: asPath changes and the effect is due again
Navigate ==
    /\ ~effectPending
    /\ \E n \in 0..MaxPathLen : \E rest \in [1..n -> {"#", "summary", "other"}] :
          /\ asPath' = <<"/docs">> \o rest
          /\ asPath' # asPath
    /\ effectPending' = TRUE
    /\ UNCHANGED <<openProp, slug, open, clicks, mapVars, fnVars, unitVars, genVars, reqVars>>

ColNext == RunHashEffect \/ Click \/ Navigate

SpecCollapsible == ColInit /\ [][ColNext]_vars

----------------------------------------------------------------------------
(* Claims about the Collapsible *)

Odd(n) == n % 2 = 1

HasHash(path) == \E k \in 1..Len(path) : path[k] = "#"
UrlHash(path) ==
    LET k == CHOOSE i \in 1..Len(path) : path[i] = "#" /\ \A j \in 1..(i - 1) : path[j] # "#"
    IN  SubSeq(path, k + 1, Len(path))
HashMatchesSlug == HasHash(asPath) /\ UrlHash(asPath) = slug

\* C12: when asPath carries a URL hash that matches the heading slug, open is
\* true after the hash effect has run, whatever the open prop was; when the hash
\* does not match, the effect leaves open as it was.
C12_HashEffectExpandsOnMatch ==
    [][RunHashEffect => (open' = IF HashMatchesSlug THEN TRUE ELSE open)]_vars

====
